---- MODULE Spec2Model ----
(***************************************************************************)
(* The polling / state-diff / dispatch core of the sports bot (main.py):   *)
(* the update_sports task loop, SportsTracker.check_sport_updates with its *)
(* three transition detectors and the team filter of create_game_embed,    *)
(* and the commands that change the shared state (track, untrack, updates, *)
(* filterteam, clearfilter, setchannel).                                   *)
(*                                                                         *)
(* Scheduling is cooperative: a coroutine runs until its next await.  The  *)
(* poll task is suspended at pc = "sleep" (between cycles), "fetch" (the   *)
(* scoreboard request) and "send" (channel.send); pc = "next" and          *)
(* pc = "event" are positions inside a synchronous stretch, where no       *)
(* command can run.  The event list of a fetched payload is read one event *)
(* at a time: the unread tail of the list is input not yet looked at, so   *)
(* it is chosen when the for loop reaches it.                              *)
(*                                                                         *)
(* Strings that the code lower-cases, searches or concatenates are         *)
(* sequences of one-character strings.                                     *)
(***************************************************************************)
EXTENDS Integers, Sequences, FiniteSets, Bags, TLC

VARIABLES
    tracked_sports,     \* tracker.tracked_sports, as a bag (element -> copies)
    game_states,        \* game_states: game id -> [score, status]
    tracked_teams,      \* tracked_teams: guild id -> list of filters
    UPDATE_CHANNEL_ID,  \* the channel the poll loop posts to
    update_sports,      \* the tasks.Loop: "unstarted", "running" or "failed"
    start_error,        \* Loop.start() was called on a running loop
    pc,                 \* position of the poll task
    it_used,            \* the set iterator's size snapshot (si_used)
    it_left,            \* the sports the set iterator has still to yield
    sport,              \* check_sport_updates: its argument
    data,               \* check_sport_updates: what fetch_data returned
    game,               \* check_sport_updates: the event being processed
    outbox,             \* messages of `game` whose channel.send is pending
    sent,               \* messages of `game` that channel.send delivered
    confirm_wait,       \* track / updates commands suspended at their
                        \* confirmation send
    lookup,             \* the lookup command suspended at its fetch
    ls_pc,              \* position of the livescore session
    ls_round,           \* livescore: the turn of `for _ in range(10)`
    ls_sport,           \* livescore: its sport
    ls_search,          \* livescore: its search_term
    reply,              \* what the last lookup or livescore step sent
    cmd_error,          \* the exception that left the last lookup or
                        \* livescore handler (on_command_error gets it)
    history             \* history variable: what the poll loop observed,
                        \* committed and delivered so far, per game id

\* the state shared by the poll loop and the tracking and filter commands
poll_vars == <<tracked_sports, game_states, tracked_teams, UPDATE_CHANNEL_ID,
               update_sports, start_error, pc, it_used, it_left, sport, data,
               game, outbox, sent, confirm_wait>>

\* the locals of the on-demand commands (lookups and livescore)
cmd_vars == <<lookup, ls_pc, ls_round, ls_sport, ls_search, reply, cmd_error>>

\* the history variable, for properties over more than one poll cycle
hist_vars == <<history>>

vars == <<poll_vars, cmd_vars, hist_vars>>

----------------------------------------------------------------------------
(* Bounds and input domains *)

MaxInFlight == 1        \* commands of one kind suspended at the same time

None == "None"

\* str.lower() on the letters the inputs use
UpperCase == <<"A", "B", "C", "F", "K", "L", "N">>
LowerCase == <<"a", "b", "c", "f", "k", "l", "n">>

LowerChar(c) ==
    IF \E i \in 1..Len(UpperCase) : UpperCase[i] = c
    THEN LowerCase[CHOOSE i \in 1..Len(UpperCase) : UpperCase[i] = c]
    ELSE c

lower(s) == [i \in 1..Len(s) |-> LowerChar(s[i])]

\* Python's `a in b` on strings
In(a, b) == \E i \in 1..(Len(b) - Len(a) + 1) : SubSeq(b, i, i + Len(a) - 1) = a

\* two of the eight keys of SPORT_APIS
SPORT_APIS == {<<"n", "b", "a">>, <<"n", "f", "l">>}

\* what a user types as <sport>
SportArgs == {<<"n", "b", "a">>, <<"N", "B", "A">>, <<"N", "f", "l">>, <<"x">>}

\* what a user types after `updates`: <sport>, or <sport> <team or player>
UpdatesArgs == {<<a, None>> : a \in SportArgs} \cup {<<<<"n", "b", "a">>, "Lakers">>}

\* what a user types as <team>
TeamArgs == {<<"L", "A">>, <<"l", "a">>}

Guilds == {"G1"}
Channels == {"c1"}
ChannelGuild == [c \in Channels |-> "G1"]

GameIds == {"401"}
\* score strings a scoreboard carries: the home side loses, ties, or wins with
\* a score of two digits
AwayScores == {<<"7">>}
HomeScores == {<<"0">>, <<"7">>, <<"1", "0">>}
StatusNames == {"STATUS_SCHEDULED", "STATUS_IN_PROGRESS", "STATUS_FINAL"}

\* display names a scoreboard carries
AwayNames == {<<"C", "a">>}
HomeNames == {<<"L", "a", "k">>, <<"B", "o">>}

\* the statistics a competitor of a gridiron scoreboard can carry
StatNames == {"totalYards", "turnovers"}

\* one event of a scoreboard: `competitions` and `competitors` are the lengths
\* of those lists, `statistics` the names in each competitor's statistics list
Event(g, n, c, st, an, a, hn, h, as, hs) ==
    [id |-> g, competitions |-> n, competitors |-> c, status |-> st,
     away |-> [displayName |-> an, score |-> a, statistics |-> as],
     home |-> [displayName |-> hn, score |-> h, statistics |-> hs]]

\* the events an upstream scoreboard can hold: well-formed ones, one whose home
\* score is not a number, one whose away side lacks a statistic the home side
\* has, one with a single competitor and one with an empty competitions list
Events ==
    { Event(g, 1, 2, st, an, a, hn, h, StatNames, StatNames) :
         g \in GameIds, st \in StatusNames, a \in AwayScores, h \in HomeScores,
         an \in AwayNames, hn \in HomeNames }
    \cup
    { Event(g, 1, 2, st, <<"C", "a">>, <<"7">>, <<"L", "a", "k">>, <<"-">>,
            StatNames, StatNames) :
         g \in GameIds, st \in {"STATUS_IN_PROGRESS", "STATUS_FINAL"} }
    \cup
    { Event(g, 1, 2, "STATUS_IN_PROGRESS", <<"C", "a">>, <<"7">>,
            <<"L", "a", "k">>, <<"0">>, {}, {"totalYards"}) : g \in GameIds }
    \cup
    { Event(g, 1, 1, "STATUS_SCHEDULED", <<>>, <<"0">>, <<"B", "o">>, <<"0">>,
            {}, {}) : g \in GameIds }
    \cup
    { Event(g, 0, 0, "STATUS_SCHEDULED", <<>>, <<"0">>, <<>>, <<"0">>, {}, {}) :
         g \in GameIds }

\* no event
NoGame == Event(None, 0, 0, None, <<>>, <<>>, <<>>, <<>>, {}, {})

----------------------------------------------------------------------------
(* SportsTracker: pure helpers *)

\* int() of a string: ValueError unless it is a string of decimal digits
Digits == <<"0", "1", "2", "3", "4", "5", "6", "7", "8", "9">>
DigitValue(c) == (CHOOSE i \in 1..10 : Digits[i] = c) - 1

is_numeric(s) ==
    /\ Len(s) > 0
    /\ \A i \in 1..Len(s) : \E d \in 1..10 : Digits[d] = s[i]

RECURSIVE int(_)
int(s) ==
    IF Len(s) = 0 THEN 0
    ELSE 10 * int(SubSeq(s, 1, Len(s) - 1)) + DigitValue(s[Len(s)])

\* current_score = f"{away}-{home}"
current_score(g) == g.away.score \o <<"-">> \o g.home.score

\* variant: a game with no stored snapshot counts as a changed score
detect_score_change_unseen(game_id, new_score, old_state) ==
    IF game_id \notin DOMAIN old_state
    THEN TRUE
    ELSE new_score # old_state[game_id].score

detect_score_change(game_id, new_score, old_state) ==
    IF game_id \notin DOMAIN old_state
    THEN FALSE
    ELSE new_score # old_state[game_id].score

\* variant: a game whose GAME STARTED was delivered once never starts again
detect_game_start_once(game_id, status, old_state) ==
    /\ game_id \notin history.started
    /\ IF game_id \notin DOMAIN old_state
       THEN status = "STATUS_IN_PROGRESS"
       ELSE /\ old_state[game_id].status # "STATUS_IN_PROGRESS"
            /\ status = "STATUS_IN_PROGRESS"

\* variant: a game with no stored snapshot is never a start
detect_game_start_known_only(game_id, status, old_state) ==
    IF game_id \notin DOMAIN old_state
    THEN FALSE
    ELSE /\ old_state[game_id].status # "STATUS_IN_PROGRESS"
         /\ status = "STATUS_IN_PROGRESS"

detect_game_start(game_id, status, old_state) ==
    IF game_id \notin DOMAIN old_state
    THEN status = "STATUS_IN_PROGRESS"
    ELSE /\ old_state[game_id].status # "STATUS_IN_PROGRESS"
         /\ status = "STATUS_IN_PROGRESS"

\* variant: a FINAL status is an end whatever the stored status
detect_game_end_unseen(game_id, status, old_state) ==
    status = "STATUS_FINAL"

detect_game_end(game_id, status, old_state) ==
    IF game_id \notin DOMAIN old_state
    THEN FALSE
    ELSE /\ old_state[game_id].status = "STATUS_IN_PROGRESS"
         /\ status = "STATUS_FINAL"

\* the filter loop of create_game_embed
match_found(team_filters, home_name, away_name) ==
    \E i \in 1..Len(team_filters) :
        In(team_filters[i], home_name) \/ In(team_filters[i], away_name)

Gridiron == {<<"n", "f", "l">>, <<"n", "c", "a", "a", "f">>}

\* add_game_stats: the statistics fields it adds to the embed, or the
\* UnboundLocalError of reading away_yards / away_turnovers that no loop turn
\* has assigned
add_game_stats(home_stats, away_stats, sport_key) ==
    IF sport_key \notin Gridiron
    THEN [raised |-> FALSE, fields |-> {}]
    ELSE IF \E n \in StatNames : n \in home_stats /\ n \notin away_stats
    THEN [raised |-> TRUE, fields |-> {}]
    ELSE [raised |-> FALSE, fields |-> home_stats \cap StatNames]

\* create_game_embed: None, the embed (its title and statistics fields; the
\* other fields do not decide anything here), or an exception
NoEmbed == [title |-> <<>>]
EmbedError == [title |-> <<>>, raised |-> "UnboundLocalError"]
EmbedIndexError == [title |-> <<>>, raised |-> "IndexError"]
IsEmbed(e) == e # NoEmbed /\ e # EmbedError /\ e # EmbedIndexError

create_game_embed(g, sport_key, guild_id, filters) ==
    IF g.competitions = 0
    THEN EmbedIndexError
    ELSE IF g.competitors < 2
    THEN NoEmbed
    ELSE IF /\ guild_id # None
            /\ guild_id \in DOMAIN filters
            /\ ~match_found(filters[guild_id],
                            lower(g.home.displayName), lower(g.away.displayName))
         THEN NoEmbed
         ELSE LET stats == IF g.status \in {"STATUS_IN_PROGRESS", "STATUS_FINAL"}
                           THEN add_game_stats(g.home.statistics,
                                               g.away.statistics, sport_key)
                           ELSE [raised |-> FALSE, fields |-> {}]
              IN  IF stats.raised
                  THEN EmbedError
                  ELSE [title |-> <<g.away.displayName, g.home.displayName>>,
                        stats |-> stats.fields]

\* variant: a tie goes to the home team
winner_tie_home(g) ==
    IF int(g.home.score) >= int(g.away.score)
    THEN g.home.displayName
    ELSE g.away.displayName

\* the Winner field of a FINAL announcement
winner(g) ==
    IF int(g.home.score) > int(g.away.score)
    THEN g.home.displayName
    ELSE g.away.displayName

Message(prefix, g, w) ==
    [id |-> g.id, prefix |-> prefix, score |-> current_score(g), winner |-> w]

\* the FINAL message, when int() accepts both scores
final_message(g) ==
    IF is_numeric(g.home.score) /\ is_numeric(g.away.score)
    THEN <<Message("FINAL", g, winner(g))>>
    ELSE <<>>

\* variant: three independent `if`s instead of the if / elif / elif chain
announcements_no_elif(g, sport_key, guild_id, filters, old_state) ==
    LET embed == create_game_embed(g, sport_key, guild_id, filters)
        one(cond, m) == IF cond /\ IsEmbed(embed) THEN m ELSE <<>>
    IN  one(detect_game_start(g.id, g.status, old_state),
            <<Message("GAME STARTED", g, <<>>)>>)
        \o one(detect_score_change(g.id, current_score(g), old_state),
               <<Message("SCORE UPDATE", g, <<>>)>>)
        \o one(detect_game_end(g.id, g.status, old_state), final_message(g))

\* variant: the score-change test placed before the game-start test
announcements_score_first(g, sport_key, guild_id, filters, old_state) ==
    LET embed == create_game_embed(g, sport_key, guild_id, filters)
    IN  IF detect_score_change(g.id, current_score(g), old_state)
        THEN IF IsEmbed(embed) THEN <<Message("SCORE UPDATE", g, <<>>)>> ELSE <<>>
        ELSE IF detect_game_start(g.id, g.status, old_state)
        THEN IF IsEmbed(embed) THEN <<Message("GAME STARTED", g, <<>>)>> ELSE <<>>
        ELSE IF detect_game_end(g.id, g.status, old_state)
        THEN IF IsEmbed(embed) THEN final_message(g) ELSE <<>>
        ELSE <<>>

\* variant: a snapshot committed while polling another sport is not a prior
\* snapshot of this sport's game
announcements_own_sport(g, sport_key, guild_id, filters, old_state) ==
    LET embed == create_game_embed(g, sport_key, guild_id, filters)
        own == IF /\ g.id \in DOMAIN history.writer
                  /\ history.writer[g.id] # sport_key
               THEN [k \in {} |-> "None"]
               ELSE old_state
    IN  IF detect_game_start(g.id, g.status, own)
        THEN IF IsEmbed(embed) THEN <<Message("GAME STARTED", g, <<>>)>> ELSE <<>>
        ELSE IF detect_score_change(g.id, current_score(g), own)
        THEN IF IsEmbed(embed) THEN <<Message("SCORE UPDATE", g, <<>>)>> ELSE <<>>
        ELSE IF detect_game_end(g.id, g.status, own)
        THEN IF IsEmbed(embed) THEN final_message(g) ELSE <<>>
        ELSE <<>>

\* the if / elif / elif chain of check_sport_updates: the messages it hands to
\* channel.send for one event
announcements(g, sport_key, guild_id, filters, old_state) ==
    LET embed == create_game_embed(g, sport_key, guild_id, filters)
        status == g.status
    IN  IF detect_game_start(g.id, status, old_state)
        THEN IF IsEmbed(embed) THEN <<Message("GAME STARTED", g, <<>>)>> ELSE <<>>
        ELSE IF detect_score_change(g.id, current_score(g), old_state)
        THEN IF IsEmbed(embed) THEN <<Message("SCORE UPDATE", g, <<>>)>> ELSE <<>>
        ELSE IF detect_game_end(g.id, status, old_state)
        THEN IF IsEmbed(embed) THEN final_message(g) ELSE <<>>
        ELSE <<>>

\* the exception that one turn of `for game in events:` raises, or None:
\* IndexError of `[0]` on an empty competitions list, the UnboundLocalError of
\* create_game_embed in whichever branch calls it, ValueError of int() in the
\* game-end branch
exception_of(g, sport_key, guild_id, filters, old_state) ==
    LET embed == create_game_embed(g, sport_key, guild_id, filters)
        start == detect_game_start(g.id, g.status, old_state)
        score == detect_score_change(g.id, current_score(g), old_state)
        end   == detect_game_end(g.id, g.status, old_state)
    IN  IF g.competitions = 0 THEN "IndexError"
        ELSE IF g.competitors < 2 THEN None
        ELSE IF (start \/ score \/ end) /\ embed = EmbedError
        THEN "UnboundLocalError"
        ELSE IF /\ ~start /\ ~score /\ end /\ IsEmbed(embed)
                /\ ~(is_numeric(g.home.score) /\ is_numeric(g.away.score))
        THEN "ValueError"
        ELSE None

\* game_states[game_id] = {...}
commit(g, old_state) ==
    [k \in DOMAIN old_state \cup {g.id} |->
        IF k = g.id THEN [score |-> current_score(g), status |-> g.status]
        ELSE old_state[k]]

----------------------------------------------------------------------------
(* Shared containers *)

EmptyDict == [k \in {} |-> None]

dict_set(d, k, v) == [x \in DOMAIN d \cup {k} |-> IF x = k THEN v ELSE d[x]]

\* nothing recorded; a specification that follows games over several cycles
\* starts with recording switched on, the others leave the history constant
NoHistory ==
    [recording |-> FALSE,
     observed |-> EmptyDict,    \* game id -> the score and status last classified
     writer |-> EmptyDict,      \* game id -> the sport whose poll committed it
     in_progress_seen |-> {},   \* game ids classified while IN_PROGRESS
     started |-> {}]            \* game ids whose GAME STARTED was delivered

\* event g went through the if / elif / elif chain
history_observed(h, g) ==
    IF ~h.recording THEN h
    ELSE [h EXCEPT !.observed = dict_set(@, g.id, [score |-> current_score(g),
                                                   status |-> g.status]),
                   !.in_progress_seen =
                       IF g.status = "STATUS_IN_PROGRESS" THEN @ \cup {g.id} ELSE @]

\* the snapshot of event g was committed while polling sport_key
history_committed(h, g, sport_key) ==
    IF ~h.recording THEN h
    ELSE [h EXCEPT !.writer = dict_set(@, g.id, sport_key)]

\* channel.send delivered message m
history_delivered(h, m) ==
    IF h.recording /\ m.prefix = "GAME STARTED"
    THEN [h EXCEPT !.started = @ \cup {m.id}]
    ELSE h

\* variant: list.append in place of set.add
list_append(s, x) == s (+) SetToBag({x})

\* set.add / set.remove / len() / iteration on tracker.tracked_sports
set_add(s, x) == IF BagIn(x, s) THEN s ELSE s (+) SetToBag({x})
set_remove(s, x) == s (-) SetToBag({x})
set_len(s) == BagCardinality(s)
members(s) == BagToSet(s)

\* a set iterator while the set is changed under it: a removed key is no
\* longer yielded; an added key lands before or after the iterator's position
iter_after_add(left, s, x) ==
    IF pc \in {"fetch", "send"} /\ ~BagIn(x, s) THEN {left, left \cup {x}} ELSE {left}
iter_after_remove(left, x) == left \ {x}

\* bot.get_channel(UPDATE_CHANNEL_ID)
get_channel == IF UPDATE_CHANNEL_ID \in Channels THEN UPDATE_CHANNEL_ID ELSE None

\* a coroutine other than the poll task runs only while the poll task is
\* suspended at an await
AtAwait == pc \in {"sleep", "fetch", "send"}

\* no lookup is suspended; livescore was given no search term
NoLookup == [name |-> None, sport |-> <<>>]
NoSearch == <<>>

\* no lookup and no livescore session is under way
CmdIdle ==
    /\ lookup = NoLookup
    /\ ls_pc = "idle"
    /\ ls_round = 0
    /\ ls_sport = <<>>
    /\ ls_search = NoSearch
    /\ reply = None
    /\ cmd_error = None

Init ==
    /\ tracked_sports = EmptyBag
    /\ game_states = EmptyDict
    /\ tracked_teams = EmptyDict
    /\ UPDATE_CHANNEL_ID \in {"c1", "unknown"}
    /\ update_sports = "unstarted"
    /\ start_error = FALSE
    /\ pc = "sleep"
    /\ it_used = 0
    /\ it_left = {}
    /\ sport = <<>>
    /\ data = "unfetched"
    /\ game = NoGame
    /\ outbox = <<>>
    /\ sent = <<>>
    /\ confirm_wait = 0
    /\ CmdIdle
    /\ history = NoHistory

----------------------------------------------------------------------------
(* The update_sports task loop *)

is_running == update_sports = "running"

\* variant: start() called without asking is_running()
start_always == TRUE

\* `if not update_sports.is_running():` of track and updates
start_guard == ~is_running

\* `if not update_sports.is_running(): update_sports.start()`; Loop.start()
\* raises RuntimeError when its task is still running
ensure_started ==
    IF start_guard
    THEN IF is_running
         THEN /\ start_error' = TRUE
              /\ UNCHANGED update_sports
         ELSE /\ update_sports' = "running"
              /\ UNCHANGED start_error
    ELSE UNCHANGED <<update_sports, start_error>>

\* variant: the loop iterates over every key of SPORT_APIS
cycle_start_all ==
    /\ update_sports = "running"
    /\ pc = "sleep"
    /\ pc' = "next"
    /\ it_used' = set_len(tracked_sports)
    /\ it_left' = SPORT_APIS
    /\ UNCHANGED <<tracked_sports, game_states, tracked_teams, UPDATE_CHANNEL_ID,
                   update_sports, start_error, sport, data, game, outbox, sent,
                   confirm_wait>>
    /\ UNCHANGED <<cmd_vars, hist_vars>>

\* the loop fires: `for sport in tracker.tracked_sports:` creates its iterator
cycle_start ==
    /\ update_sports = "running"
    /\ pc = "sleep"
    /\ pc' = "next"
    /\ it_used' = set_len(tracked_sports)
    /\ it_left' = members(tracked_sports)
    /\ UNCHANGED <<tracked_sports, game_states, tracked_teams, UPDATE_CHANNEL_ID,
                   update_sports, start_error, sport, data, game, outbox, sent,
                   confirm_wait>>
    /\ UNCHANGED <<cmd_vars, hist_vars>>

\* the body raised: an exception tasks.Loop does not retry ends the task, one
\* it retries (a connection error) makes it call the body again after a back-off
cycle_raise(retried) ==
    /\ pc' = "sleep"
    /\ it_used' = 0
    /\ it_left' = {}
    /\ sport' = <<>>
    /\ data' = "unfetched"
    /\ update_sports' = IF retried THEN update_sports ELSE "failed"

\* the iterator's next(), and check_sport_updates up to its fetch
for_next ==
    /\ pc = "next"
    /\ IF set_len(tracked_sports) # it_used
       THEN \* RuntimeError: Set changed size during iteration
            cycle_raise(FALSE)
       ELSE IF it_left = {}
       THEN /\ pc' = "sleep"
            /\ it_used' = 0
            /\ it_left' = {}
            /\ sport' = <<>>
            /\ data' = "unfetched"
            /\ UNCHANGED update_sports
       ELSE \E s \in it_left :
                /\ sport' = s
                /\ data' = "unfetched"
                /\ it_left' = it_left \ {s}
                /\ pc' = IF get_channel = None \/ s \notin SPORT_APIS
                         THEN "next" ELSE "fetch"
                /\ UNCHANGED <<update_sports, it_used>>
    /\ UNCHANGED <<tracked_sports, game_states, tracked_teams, UPDATE_CHANNEL_ID,
                   start_error, game, outbox, sent, confirm_wait>>
    /\ UNCHANGED <<cmd_vars, hist_vars>>

\* variant: the fetch failure is raised instead of returned
fetch_failed_raised ==
    /\ pc = "fetch"
    /\ pc' = "sleep"
    /\ data' = None
    /\ it_used' = 0
    /\ it_left' = {}
    /\ sport' = <<>>
    /\ update_sports' = "failed"
    /\ UNCHANGED <<tracked_sports, game_states, tracked_teams, UPDATE_CHANNEL_ID,
                   start_error, game, outbox, sent, confirm_wait>>
    /\ UNCHANGED <<cmd_vars, hist_vars>>

\* fetch_data returned None (a non-200 response or an exception): return
fetch_failed ==
    /\ pc = "fetch"
    /\ pc' = "next"
    /\ data' = None
    /\ UNCHANGED <<tracked_sports, game_states, tracked_teams, UPDATE_CHANNEL_ID,
                   update_sports, start_error, it_used, it_left, sport, game,
                   outbox, sent, confirm_wait>>
    /\ UNCHANGED <<cmd_vars, hist_vars>>

\* fetch_data returned the payload
fetch_ok ==
    /\ pc = "fetch"
    /\ pc' = "event"
    /\ data' = "json"
    /\ game' = NoGame
    /\ outbox' = <<>>
    /\ sent' = <<>>
    /\ UNCHANGED <<tracked_sports, game_states, tracked_teams, UPDATE_CHANNEL_ID,
                   update_sports, start_error, it_used, it_left, sport,
                   confirm_wait>>
    /\ UNCHANGED <<cmd_vars, hist_vars>>

\* `for game in events:` is exhausted: check_sport_updates returns
events_done ==
    /\ pc = "event"
    /\ pc' = "next"
    /\ game' = NoGame
    /\ outbox' = <<>>
    /\ sent' = <<>>
    /\ UNCHANGED <<tracked_sports, game_states, tracked_teams, UPDATE_CHANNEL_ID,
                   update_sports, start_error, it_used, it_left, sport, data,
                   confirm_wait>>
    /\ UNCHANGED <<cmd_vars, hist_vars>>

\* variant: an event with fewer than two competitors is not skipped
read_event_no_skip(g) ==
    /\ pc = "event"
    /\ game' = g
    /\ sent' = <<>>
    /\ LET guild_id == ChannelGuild[get_channel]
           out == announcements(g, sport, guild_id, tracked_teams, game_states)
       IN  IF g.competitions > 0 /\ g.competitors >= 2
              /\ exception_of(g, sport, guild_id, tracked_teams, game_states) # None
           THEN /\ cycle_raise(FALSE)
                /\ outbox' = <<>>
                /\ UNCHANGED game_states
           ELSE /\ UNCHANGED <<update_sports, it_used, it_left, sport, data>>
                /\ IF out = <<>>
                   THEN /\ pc' = "event"
                        /\ outbox' = <<>>
                        /\ game_states' = commit(g, game_states)
                   ELSE /\ pc' = "send"
                        /\ outbox' = out
                        /\ UNCHANGED game_states
    /\ UNCHANGED <<tracked_sports, tracked_teams, UPDATE_CHANNEL_ID, start_error,
                   confirm_wait>>
    /\ UNCHANGED <<cmd_vars, hist_vars>>

\* one turn of `for game in events:` up to its channel.send or its commit
read_event(g) ==
    /\ pc = "event"
    /\ game' = g
    /\ sent' = <<>>
    /\ LET guild_id == ChannelGuild[get_channel]
           out == announcements(g, sport, guild_id, tracked_teams, game_states)
       IN  IF exception_of(g, sport, guild_id, tracked_teams, game_states) # None
           THEN /\ cycle_raise(FALSE)
                /\ outbox' = <<>>
                /\ UNCHANGED <<game_states, history>>
           ELSE /\ UNCHANGED <<update_sports, it_used, it_left, sport, data>>
                /\ IF g.competitors < 2
                   THEN /\ pc' = "event"
                        /\ outbox' = <<>>
                        /\ UNCHANGED <<game_states, history>>
                   ELSE IF out = <<>>
                   THEN /\ pc' = "event"
                        /\ outbox' = <<>>
                        /\ game_states' = commit(g, game_states)
                        /\ history' = history_committed(
                                          history_observed(history, g), g, sport)
                   ELSE /\ pc' = "send"
                        /\ outbox' = out
                        /\ UNCHANGED game_states
                        /\ history' = history_observed(history, g)
    /\ UNCHANGED <<tracked_sports, tracked_teams, UPDATE_CHANNEL_ID, start_error,
                   confirm_wait>>
    /\ UNCHANGED cmd_vars

\* channel.send delivered the message
send_ok ==
    /\ pc = "send"
    /\ sent' = Append(sent, Head(outbox))
    /\ outbox' = Tail(outbox)
    /\ IF Tail(outbox) = <<>>
       THEN /\ pc' = "event"
            /\ game_states' = commit(game, game_states)
            /\ history' = history_committed(
                              history_delivered(history, Head(outbox)), game, sport)
       ELSE /\ pc' = "send"
            /\ UNCHANGED game_states
            /\ history' = history_delivered(history, Head(outbox))
    /\ UNCHANGED <<tracked_sports, tracked_teams, UPDATE_CHANNEL_ID, update_sports,
                   start_error, it_used, it_left, sport, data, game, confirm_wait>>
    /\ UNCHANGED cmd_vars

\* channel.send raised: discord.HTTPException (the platform rejected the
\* message) or a connection error
send_failed(retried) ==
    /\ pc = "send"
    /\ cycle_raise(retried)
    /\ outbox' = <<>>
    /\ UNCHANGED <<tracked_sports, game_states, tracked_teams, UPDATE_CHANNEL_ID,
                   start_error, game, sent, confirm_wait>>
    /\ UNCHANGED <<cmd_vars, hist_vars>>

----------------------------------------------------------------------------
(* Commands *)

\* what track, untrack and updates reply
track_reply(arg) ==
    IF lower(arg) \notin SPORT_APIS THEN "invalid_sport" ELSE "now_tracking"

untrack_reply(arg, tracked) ==
    IF BagIn(lower(arg), tracked) THEN "stopped_tracking" ELSE "not_tracking"

updates_reply(arg, team_or_player) ==
    IF lower(arg) \notin SPORT_APIS THEN "invalid_sport"
    ELSE IF team_or_player # None THEN "tracking_team"
    ELSE "now_tracking"

\* variant: track adds the key without validating it
track_unchecked(arg) ==
    /\ AtAwait
    /\ confirm_wait < MaxInFlight
    /\ LET s == lower(arg)
       IN  /\ tracked_sports' = set_add(tracked_sports, s)
           /\ it_left' \in iter_after_add(it_left, tracked_sports, s)
           /\ confirm_wait' = confirm_wait + 1
    /\ UNCHANGED <<game_states, tracked_teams, UPDATE_CHANNEL_ID, update_sports,
                   start_error, pc, it_used, sport, data, game, outbox, sent>>
    /\ UNCHANGED <<cmd_vars, hist_vars>>

\* track: validate, add, then await the confirmation send
track(arg) ==
    /\ AtAwait
    /\ confirm_wait < MaxInFlight
    /\ LET s == lower(arg)
       IN  IF s \notin SPORT_APIS
           THEN UNCHANGED <<tracked_sports, it_left, confirm_wait>>
           ELSE /\ tracked_sports' = set_add(tracked_sports, s)
                /\ it_left' \in iter_after_add(it_left, tracked_sports, s)
                /\ confirm_wait' = confirm_wait + 1
    /\ UNCHANGED <<game_states, tracked_teams, UPDATE_CHANNEL_ID, update_sports,
                   start_error, pc, it_used, sport, data, game, outbox, sent>>
    /\ UNCHANGED <<cmd_vars, hist_vars>>

\* track, and updates, after the confirmation send: start the loop unless it
\* is running; a rejected send raises out of the command
confirm_resume(delivered) ==
    /\ AtAwait
    /\ confirm_wait > 0
    /\ confirm_wait' = confirm_wait - 1
    /\ IF delivered
       THEN ensure_started
       ELSE UNCHANGED <<update_sports, start_error>>
    /\ UNCHANGED <<tracked_sports, game_states, tracked_teams, UPDATE_CHANNEL_ID,
                   pc, it_used, it_left, sport, data, game, outbox, sent>>
    /\ UNCHANGED <<cmd_vars, hist_vars>>

\* variant: untrack also drops the stored snapshots
untrack_purges(arg) ==
    /\ AtAwait
    /\ LET s == lower(arg)
       IN  IF BagIn(s, tracked_sports)
           THEN /\ tracked_sports' = set_remove(tracked_sports, s)
                /\ it_left' = iter_after_remove(it_left, s)
                /\ game_states' = EmptyDict
           ELSE UNCHANGED <<tracked_sports, it_left, game_states>>
    /\ UNCHANGED <<tracked_teams, UPDATE_CHANNEL_ID, update_sports,
                   start_error, pc, it_used, sport, data, game, outbox, sent,
                   confirm_wait>>
    /\ UNCHANGED <<cmd_vars, hist_vars>>

\* untrack
untrack(arg) ==
    /\ AtAwait
    /\ LET s == lower(arg)
       IN  IF BagIn(s, tracked_sports)
           THEN /\ tracked_sports' = set_remove(tracked_sports, s)
                /\ it_left' = iter_after_remove(it_left, s)
           ELSE UNCHANGED <<tracked_sports, it_left>>
    /\ UNCHANGED <<game_states, tracked_teams, UPDATE_CHANNEL_ID, update_sports,
                   start_error, pc, it_used, sport, data, game, outbox, sent,
                   confirm_wait>>
    /\ UNCHANGED <<cmd_vars, hist_vars>>

\* updates: with a team or player it only replies; without, it is track
updates(arg, team_or_player) ==
    /\ AtAwait
    /\ confirm_wait < MaxInFlight
    /\ LET s == lower(arg)
       IN  IF s \notin SPORT_APIS \/ team_or_player # None
           THEN UNCHANGED <<tracked_sports, it_left, confirm_wait>>
           ELSE /\ tracked_sports' = set_add(tracked_sports, s)
                /\ it_left' \in iter_after_add(it_left, tracked_sports, s)
                /\ confirm_wait' = confirm_wait + 1
    /\ UNCHANGED <<game_states, tracked_teams, UPDATE_CHANNEL_ID, update_sports,
                   start_error, pc, it_used, sport, data, game, outbox, sent>>
    /\ UNCHANGED <<cmd_vars, hist_vars>>

\* dict lookup with the `not in` branch of filterteam
filters_of(guild_id) ==
    IF guild_id \in DOMAIN tracked_teams THEN tracked_teams[guild_id] ELSE <<>>

\* variant: the name stored as typed
filterteam_as_typed(guild_id, team_name) ==
    /\ AtAwait
    /\ LET old == filters_of(guild_id)
       IN  IF \A i \in 1..Len(old) : old[i] # team_name
           THEN tracked_teams' = dict_set(tracked_teams, guild_id,
                                          Append(old, team_name))
           ELSE tracked_teams' = dict_set(tracked_teams, guild_id, old)
    /\ UNCHANGED <<tracked_sports, game_states, UPDATE_CHANNEL_ID, update_sports,
                   start_error, pc, it_used, it_left, sport, data, game, outbox,
                   sent, confirm_wait>>
    /\ UNCHANGED <<cmd_vars, hist_vars>>

\* filterteam: append the lower-cased name unless it is there
filterteam(guild_id, team_name) ==
    /\ AtAwait
    /\ LET team_name_lower == lower(team_name)
           old == filters_of(guild_id)
       IN  IF \A i \in 1..Len(old) : old[i] # team_name_lower
           THEN tracked_teams' = dict_set(tracked_teams, guild_id,
                                             Append(old, team_name_lower))
           ELSE tracked_teams' = dict_set(tracked_teams, guild_id, old)
    /\ UNCHANGED <<tracked_sports, game_states, UPDATE_CHANNEL_ID, update_sports,
                   start_error, pc, it_used, it_left, sport, data, game, outbox, sent,
                   confirm_wait>>
    /\ UNCHANGED <<cmd_vars, hist_vars>>

\* variant: clearfilter empties the list of every guild
clearfilter_all(guild_id) ==
    /\ AtAwait
    /\ IF guild_id \in DOMAIN tracked_teams
       THEN tracked_teams' = [x \in DOMAIN tracked_teams |-> <<>>]
       ELSE UNCHANGED tracked_teams
    /\ UNCHANGED <<tracked_sports, game_states, UPDATE_CHANNEL_ID, update_sports,
                   start_error, pc, it_used, it_left, sport, data, game, outbox, sent,
                   confirm_wait>>
    /\ UNCHANGED <<cmd_vars, hist_vars>>

\* clearfilter
clearfilter(guild_id) ==
    /\ AtAwait
    /\ IF guild_id \in DOMAIN tracked_teams
       THEN tracked_teams' = dict_set(tracked_teams, guild_id, <<>>)
       ELSE UNCHANGED tracked_teams
    /\ UNCHANGED <<tracked_sports, game_states, UPDATE_CHANNEL_ID, update_sports,
                   start_error, pc, it_used, it_left, sport, data, game, outbox, sent,
                   confirm_wait>>
    /\ UNCHANGED <<cmd_vars, hist_vars>>

\* variant: a new channel starts from an empty snapshot store
setchannel_resets(c) ==
    /\ AtAwait
    /\ UPDATE_CHANNEL_ID' = c
    /\ game_states' = EmptyDict
    /\ UNCHANGED <<tracked_sports, tracked_teams, update_sports,
                   start_error, pc, it_used, it_left, sport, data, game, outbox, sent,
                   confirm_wait>>
    /\ UNCHANGED <<cmd_vars, hist_vars>>

\* setchannel, by an administrator in channel c
setchannel(c) ==
    /\ AtAwait
    /\ UPDATE_CHANNEL_ID' = c
    /\ UNCHANGED <<tracked_sports, game_states, tracked_teams, update_sports,
                   start_error, pc, it_used, it_left, sport, data, game, outbox, sent,
                   confirm_wait>>
    /\ UNCHANGED <<cmd_vars, hist_vars>>

----------------------------------------------------------------------------
(* On-demand commands: the lookups and livescore.  They keep what they fetch *)
(* in locals; the model follows one of them at a time.                       *)

RefreshRounds == 10     \* `for _ in range(10)` of livescore

\* the lookups: validate the sport, announce the fetch, fetch, reply
LookupNames == {"scores", "schedule", "injuries", "teaminjuries", "stats",
                "standings", "player", "playerstats"}

\* what a user types as [search] of livescore
SearchArgs == {NoSearch, <<"L", "a">>}

\* the events of the payloads a livescore session is given
LiveSample ==
    { g \in Events : /\ g.competitors = 2
                     /\ g.home.score = <<"0">>
                     /\ g.status # "STATUS_SCHEDULED"
                     /\ g.away.statistics = StatNames }

\* ' '.join of the competitors' lower-cased display names
team_names(g) == lower(g.home.displayName) \o <<" ">> \o lower(g.away.displayName)

\* the games livescore keeps: in progress and, with a search term, matching it
live_games(events, search_term) ==
    { g \in events : /\ g.status = "STATUS_IN_PROGRESS"
                     /\ \/ search_term = NoSearch
                        \/ In(lower(search_term), team_names(g)) }

\* updated_count of a refresh
updated_count(events, search_term) ==
    LET n == Cardinality({ g \in live_games(events, search_term) :
                             g.competitors >= 2 })
    IN  IF n >= 5 THEN 5 ELSE n

\* a handler returned or raised: its locals are gone
cmd_return(r, e) ==
    /\ lookup' = NoLookup
    /\ ls_pc' = "idle"
    /\ ls_round' = 0
    /\ ls_sport' = <<>>
    /\ ls_search' = NoSearch
    /\ reply' = r
    /\ cmd_error' = e

\* variant: the lookup fetches without validating the sport
lookup_call_unchecked(name, arg) ==
    /\ AtAwait
    /\ lookup = NoLookup /\ ls_pc = "idle"
    /\ lookup' = [name |-> name, sport |-> lower(arg)]
    /\ reply' = "fetching"
    /\ cmd_error' = None
    /\ UNCHANGED <<ls_pc, ls_round, ls_sport, ls_search>>
    /\ UNCHANGED <<poll_vars, hist_vars>>

\* scores, schedule, injuries, teaminjuries, stats, standings, player,
\* playerstats up to the fetch
lookup_call(name, arg) ==
    /\ AtAwait
    /\ lookup = NoLookup /\ ls_pc = "idle"
    /\ IF lower(arg) \notin SPORT_APIS
       THEN cmd_return("invalid_sport", None)
       ELSE /\ lookup' = [name |-> name, sport |-> lower(arg)]
            /\ reply' = "fetching"
            /\ cmd_error' = None
            /\ UNCHANGED <<ls_pc, ls_round, ls_sport, ls_search>>
    /\ UNCHANGED <<poll_vars, hist_vars>>

\* the lookup after its fetch: the fetch failed, found nothing to show, or
\* found event g; scores shows it through create_game_embed (no guild filter)
lookup_fetched(outcome, g) ==
    /\ AtAwait
    /\ lookup # NoLookup
    /\ IF outcome = "failed" THEN cmd_return("failed_fetch", None)
       ELSE IF outcome = "nothing" THEN cmd_return("nothing_found", None)
       ELSE IF lookup.name # "scores" THEN cmd_return("embed", None)
       ELSE LET embed == create_game_embed(g, lookup.sport, None, tracked_teams)
            IN  IF IsEmbed(embed) THEN cmd_return("embed", None)
                ELSE IF embed = NoEmbed THEN cmd_return("fetching", None)
                ELSE cmd_return("error", embed.raised)
    /\ UNCHANGED <<poll_vars, hist_vars>>

\* livescore up to its first fetch
livescore(arg, search_term) ==
    /\ AtAwait
    /\ lookup = NoLookup /\ ls_pc = "idle"
    /\ IF lower(arg) \notin SPORT_APIS
       THEN cmd_return("invalid_sport", None)
       ELSE /\ ls_pc' = "fetch0"
            /\ ls_sport' = lower(arg)
            /\ ls_search' = search_term
            /\ reply' = None
            /\ cmd_error' = None
            /\ UNCHANGED <<lookup, ls_round>>
    /\ UNCHANGED <<poll_vars, hist_vars>>

\* livescore after its first fetch: up to the send of the initial message
ls_first_fetch(ok, events) ==
    /\ AtAwait
    /\ ls_pc = "fetch0"
    /\ IF ~ok THEN cmd_return("failed_fetch", None)
       ELSE IF live_games(events, ls_search) = {}
       THEN cmd_return("no_live_games", None)
       ELSE /\ ls_pc' = "send0"
            /\ UNCHANGED <<lookup, ls_round, ls_sport, ls_search, reply, cmd_error>>
    /\ UNCHANGED <<poll_vars, hist_vars>>

\* the initial message was sent, or rejected: enter `for _ in range(10)`
ls_sent(delivered) ==
    /\ AtAwait
    /\ ls_pc = "send0"
    /\ IF delivered
       THEN /\ ls_pc' = "sleep"
            /\ ls_round' = 1
            /\ reply' = "live_embed"
            /\ UNCHANGED <<lookup, ls_sport, ls_search, cmd_error>>
       ELSE cmd_return("error", "HTTPException")
    /\ UNCHANGED <<poll_vars, hist_vars>>

\* asyncio.sleep(30) is over: fetch again
ls_wake ==
    /\ AtAwait
    /\ ls_pc = "sleep"
    /\ ls_pc' = "fetch"
    /\ UNCHANGED <<lookup, ls_round, ls_sport, ls_search, reply, cmd_error>>
    /\ UNCHANGED <<poll_vars, hist_vars>>

\* variant: a failed refresh fetch skips the turn instead of ending the loop
ls_refetch_continue(ok, events) ==
    /\ AtAwait
    /\ ls_pc = "fetch"
    /\ IF ~ok
       THEN IF ls_round < RefreshRounds
            THEN /\ ls_pc' = "sleep"
                 /\ ls_round' = ls_round + 1
                 /\ UNCHANGED <<lookup, ls_sport, ls_search, reply, cmd_error>>
            ELSE cmd_return(reply, None)
       ELSE /\ ls_pc' = IF updated_count(events, ls_search) = 0
                        THEN "edit_zero" ELSE "edit"
            /\ UNCHANGED <<lookup, ls_round, ls_sport, ls_search, reply, cmd_error>>
    /\ UNCHANGED <<poll_vars, hist_vars>>

\* the refresh fetch returned: break, or rebuild the embed up to its edit
ls_refetch(ok, events) ==
    /\ AtAwait
    /\ ls_pc = "fetch"
    /\ IF ~ok
       THEN cmd_return(reply, None)
       ELSE /\ ls_pc' = IF updated_count(events, ls_search) = 0
                        THEN "edit_zero" ELSE "edit"
            /\ UNCHANGED <<lookup, ls_round, ls_sport, ls_search, reply, cmd_error>>
    /\ UNCHANGED <<poll_vars, hist_vars>>

\* message.edit inside try / except: the next turn, or break
ls_edit(ok) ==
    /\ AtAwait
    /\ ls_pc = "edit"
    /\ IF ok /\ ls_round < RefreshRounds
       THEN /\ ls_pc' = "sleep"
            /\ ls_round' = ls_round + 1
            /\ reply' = "live_embed"
            /\ UNCHANGED <<lookup, ls_sport, ls_search, cmd_error>>
       ELSE cmd_return(IF ok THEN "live_embed" ELSE reply, None)
    /\ UNCHANGED <<poll_vars, hist_vars>>

\* message.edit of the `updated_count == 0` branch, outside the try: break,
\* or the exception leaves the handler
ls_edit_zero(ok) ==
    /\ AtAwait
    /\ ls_pc = "edit_zero"
    /\ IF ok
       THEN cmd_return("all_games_ended", None)
       ELSE cmd_return("error", "HTTPException")
    /\ UNCHANGED <<poll_vars, hist_vars>>

----------------------------------------------------------------------------
Next ==
    \/ cycle_start
    \/ for_next
    \/ fetch_failed
    \/ fetch_ok
    \/ events_done
    \/ \E g \in Events : read_event(g)
    \/ send_ok
    \/ \E retried \in BOOLEAN : send_failed(retried)
    \/ \E arg \in SportArgs : track(arg)
    \/ \E delivered \in BOOLEAN : confirm_resume(delivered)
    \/ \E arg \in SportArgs : untrack(arg)
    \/ \E a \in UpdatesArgs : updates(a[1], a[2])
    \/ \E g \in Guilds, t \in TeamArgs : filterteam(g, t)
    \/ \E g \in Guilds : clearfilter(g)
    \/ \E c \in Channels : setchannel(c)

Spec == Init /\ [][Next]_vars

\* snapshot stores a command can find
SampleStores ==
    {EmptyDict,
     [k \in {"401"} |-> [score |-> <<"7", "-", "0">>,
                         status |-> "STATUS_IN_PROGRESS"]]}

CmdInit ==
    /\ tracked_sports = EmptyBag
    /\ game_states \in SampleStores
    /\ tracked_teams = EmptyDict
    /\ UPDATE_CHANNEL_ID = "c1"
    /\ update_sports = "unstarted"
    /\ start_error = FALSE
    /\ pc = "sleep"
    /\ it_used = 0
    /\ it_left = {}
    /\ sport = <<>>
    /\ data = "unfetched"
    /\ game = NoGame
    /\ outbox = <<>>
    /\ sent = <<>>
    /\ confirm_wait = 0
    /\ CmdIdle
    /\ history = NoHistory

\* a step of the livescore session
LsStep ==
    \/ \E ok \in BOOLEAN, events \in SUBSET LiveSample : ls_first_fetch(ok, events)
    \/ \E delivered \in BOOLEAN : ls_sent(delivered)
    \/ ls_wake
    \/ \E ok \in BOOLEAN, events \in SUBSET LiveSample : ls_refetch(ok, events)
    \/ \E ok \in BOOLEAN : ls_edit(ok)
    \/ \E ok \in BOOLEAN : ls_edit_zero(ok)

\* the commands that take a sport, with the poll task between two cycles
CmdNext ==
    \/ \E arg \in SportArgs : track(arg)
    \/ \E delivered \in BOOLEAN : confirm_resume(delivered)
    \/ \E arg \in SportArgs : untrack(arg)
    \/ \E a \in UpdatesArgs : updates(a[1], a[2])
    \/ \E name \in LookupNames, arg \in SportArgs : lookup_call(name, arg)
    \/ \E outcome \in {"failed", "nothing", "found"}, g \in Events :
          lookup_fetched(outcome, g)
    \/ \E arg \in SportArgs, search_term \in SearchArgs : livescore(arg, search_term)
    \/ LsStep

CmdSpec == CmdInit /\ [][CmdNext]_vars

\* the event loop runs every coroutine that can go on: a sleep ends, a fetch,
\* a send and an edit return or raise
FairCmdSpec == CmdSpec /\ WF_vars(LsStep)

\* the guilds that use the filter commands: the one of the update channel and
\* another one
FilterGuilds == {"G1", "G2"}

FilterTeamArgs == TeamArgs \cup {<<"B", "o">>}

\* the filter commands of two guilds and the tracking commands, with the poll
\* task between two cycles
FilterNext ==
    \/ \E g \in FilterGuilds, t \in FilterTeamArgs : filterteam(g, t)
    \/ \E g \in FilterGuilds : clearfilter(g)
    \/ \E arg \in SportArgs : track(arg)
    \/ \E delivered \in BOOLEAN : confirm_resume(delivered)
    \/ \E arg \in SportArgs : untrack(arg)

FilterSpec == CmdInit /\ [][FilterNext]_vars

\* both sports are tracked and the loop runs: the poll cycles, with every
\* classification, commit and delivery recorded in the history
HistoryInit ==
    /\ tracked_sports = SetToBag(SPORT_APIS)
    /\ game_states = EmptyDict
    /\ tracked_teams = EmptyDict
    /\ UPDATE_CHANNEL_ID = "c1"
    /\ update_sports = "running"
    /\ start_error = FALSE
    /\ pc = "sleep"
    /\ it_used = 0
    /\ it_left = {}
    /\ sport = <<>>
    /\ data = "unfetched"
    /\ game = NoGame
    /\ outbox = <<>>
    /\ sent = <<>>
    /\ confirm_wait = 0
    /\ CmdIdle
    /\ history = [NoHistory EXCEPT !.recording = TRUE]

HistoryNext ==
    \/ cycle_start
    \/ for_next
    \/ fetch_failed
    \/ fetch_ok
    \/ events_done
    \/ \E g \in Events : read_event(g)
    \/ send_ok
    \/ \E retried \in BOOLEAN : send_failed(retried)
    \/ \E g \in Guilds, t \in TeamArgs : filterteam(g, t)
    \/ \E g \in Guilds : clearfilter(g)

HistorySpec == HistoryInit /\ [][HistoryNext]_vars



IN_PROGRESS == "STATUS_IN_PROGRESS"
FINAL == "STATUS_FINAL"

\* the step that takes one event of the fetched list through to its send or
\* its commit (game' is that event)
ReadStep == pc = "event" /\ pc' \in {"event", "send"}

\* the guild whose filter list a poll cycle consults
DestinationGuild == ChannelGuild[get_channel]

\* one of the three transitions holds for event g against the store
Detected(g, store) ==
    \/ detect_game_start(g.id, g.status, store)
    \/ detect_score_change(g.id, current_score(g), store)
    \/ detect_game_end(g.id, g.status, store)

\* some filter entry is a substring of the lower-cased home or away name
PassesNames(entries, home_name, away_name) ==
    \E i \in 1..Len(entries) :
        In(entries[i], lower(home_name)) \/ In(entries[i], lower(away_name))

Passes(entries, g) == PassesNames(entries, g.home.displayName, g.away.displayName)

\* C1: in one call of check_sport_updates an event gets at most one message
\* (GAME STARTED, SCORE UPDATE or FINAL), delivered or pending, whatever the
\* stored snapshot and the new one are.
C1_AtMostOneMessage ==
    /\ Len(sent) + Len(outbox) <= 1
    /\ \A i \in 1..Len(sent) : sent[i].id = game.id
    /\ \A i \in 1..Len(outbox) : outbox[i].id = game.id

\* a game whose snapshot satisfies two detectors at once (started and score
\* changed) is waiting at its single send
C1_Witness ==
    /\ pc = "send"
    /\ Len(outbox) = 1
    /\ detect_game_start(game.id, game.status, game_states)
    /\ detect_score_change(game.id, current_score(game), game_states)

\* C2: stored status IN_PROGRESS, new status FINAL, score pair changed: the
\* message handed to channel.send is the FINAL announcement with a Winner
\* field, not a SCORE UPDATE.
C2_EndedOnly ==
    ( /\ pc = "send"
      /\ game.id \in DOMAIN game_states
      /\ game_states[game.id].status = IN_PROGRESS
      /\ game.status = FINAL
      /\ current_score(game) # game_states[game.id].score )
    => /\ outbox[1].prefix = "FINAL"
       /\ outbox[1].winner # <<>>

\* the case of C3: a stored snapshot that is not IN_PROGRESS, a new one that is
\* IN_PROGRESS with another score pair
C3_Case(g, store) ==
    /\ g.competitors >= 2
    /\ g.id \in DOMAIN store
    /\ store[g.id].status # IN_PROGRESS
    /\ g.status = IN_PROGRESS
    /\ current_score(g) # store[g.id].score

\* C3 as claimed: in that case the cycle announces GAME STARTED.
C3_AnnouncesStarted ==
    [][ (ReadStep /\ C3_Case(game', game_states))
        => outbox' = <<Message("GAME STARTED", game', <<>>)>> ]_vars

\* C3, amended: in that case the cycle takes the game-start branch: it
\* announces GAME STARTED when create_game_embed returns an embed for the game
\* (the team filter admits it) and nothing otherwise, never SCORE UPDATE.
C3_StartedNeverScoreUpdate ==
    [][ (ReadStep /\ C3_Case(game', game_states))
        => outbox' = IF IsEmbed(create_game_embed(game', sport, DestinationGuild,
                                                  tracked_teams))
                     THEN <<Message("GAME STARTED", game', <<>>)>>
                     ELSE <<>> ]_vars

C3_Witness ==
    /\ pc = "send"
    /\ C3_Case(game, game_states)
    /\ outbox[1].prefix = "GAME STARTED"

\* C4: once the cycle is through with an event of two competitors (announced,
\* unchanged, filtered out, or its dispatch attempted) the store entry of its
\* game id holds the new score pair and status.
C4_CommittedUnconditionally ==
    (game # NoGame /\ game.competitors >= 2 /\ pc # "send")
    => /\ game.id \in DOMAIN game_states
       /\ game_states[game.id].score = current_score(game)
       /\ game_states[game.id].status = game.status

\* C5: a failed scoreboard fetch dispatches nothing and leaves the store, the
\* tracked set and the loop as they are; check_sport_updates returns to the
\* for loop, whose next sport is fetched, and every later cycle iterates the
\* whole tracked set again.
C5_FetchFailureContained ==
    /\ [][ (pc = "fetch" /\ data' = None)
           => /\ pc' = "next"
              /\ game_states' = game_states
              /\ outbox = <<>> /\ outbox' = <<>>
              /\ sent' = sent
              /\ tracked_sports' = tracked_sports
              /\ update_sports' = update_sports
              /\ it_used' = it_used /\ it_left' = it_left ]_vars
    /\ [][ data' = None => pc' = "next" ]_vars
    /\ [][ (pc = "next" /\ set_len(tracked_sports) = it_used /\ it_left # {})
           => /\ sport' \in it_left
              /\ update_sports' = update_sports
              /\ get_channel # None => pc' = "fetch" ]_vars
    /\ [][ (pc = "sleep" /\ pc' = "next")
           => it_left' = members(tracked_sports) ]_vars

\* a fetch has failed and another sport of the cycle is still to be polled
C5_Witness ==
    /\ data = None
    /\ pc = "next"
    /\ it_left # {}
    /\ set_len(tracked_sports) = it_used

\* C6: with an empty or absent filter list of the destination guild every
\* detected transition is announced.
C6_EmptyFilterAdmitsAll ==
    [][ ( /\ ReadStep
          /\ game'.competitors >= 2
          /\ filters_of(DestinationGuild) = <<>>
          /\ Detected(game', game_states) )
        => outbox' # <<>> ]_vars

\* C7: with a non-empty filter list a game with a detected transition is
\* announced exactly when some entry is a substring of the lower-cased home or
\* away name; and a stored entry decides every game as the lower-cased form of
\* any casing of it does.
C7_FilterSubstringCaseInsensitive ==
    /\ [][ ( /\ ReadStep
             /\ game'.competitors >= 2
             /\ filters_of(DestinationGuild) # <<>>
             /\ Detected(game', game_states) )
           => (outbox' # <<>> <=> Passes(filters_of(DestinationGuild), game')) ]_vars
    /\ [][ tracked_teams' # tracked_teams
           => \A gid \in DOMAIN tracked_teams' :
                \A i \in 1..Len(tracked_teams'[gid]) :
                  \A a \in TeamArgs, hn \in HomeNames, an \in AwayNames :
                    lower(a) = lower(tracked_teams'[gid][i])
                    => (PassesNames(<<tracked_teams'[gid][i]>>, hn, an)
                        <=> PassesNames(<<lower(a)>>, hn, an)) ]_vars

\* a filter entry admits the game at its send although it is not the whole name
C7_Witness ==
    /\ pc = "send"
    /\ filters_of(DestinationGuild) # <<>>
    /\ Passes(filters_of(DestinationGuild), game)
    /\ \A i \in 1..Len(filters_of(DestinationGuild)) :
         /\ filters_of(DestinationGuild)[i] # lower(game.home.displayName)
         /\ filters_of(DestinationGuild)[i] # lower(game.away.displayName)

\* C8: track of a valid sport, in any casing and however often, leaves the
\* lower-cased key in the tracked set exactly once and every other member as
\* it was.
C8_TrackIdempotent ==
    [][ confirm_wait' = confirm_wait + 1
        => \A arg \in SportArgs :
             (track(arg) /\ lower(arg) \in SPORT_APIS)
             => /\ CopiesIn(lower(arg), tracked_sports') = 1
                /\ \A s \in (members(tracked_sports) \cup members(tracked_sports'))
                            \ {lower(arg)} :
                     CopiesIn(s, tracked_sports') = CopiesIn(s, tracked_sports) ]_vars

\* both sports are tracked, the second track still at its confirmation send
C8_Witness ==
    /\ confirm_wait > 0
    /\ \A s \in SPORT_APIS : CopiesIn(s, tracked_sports) = 1

\* C9: once started, the loop is running in every later state.
C9_AlwaysRunning ==
    [][ update_sports = "running" => update_sports' = "running" ]_vars

\* C10: start() is never called on a running loop, and the work of a cycle
\* goes on only inside the one running task: a cycle begins from the loop's
\* sleep, after the previous cycle is through.
C10_SingleCycle ==
    /\ start_error = FALSE
    /\ pc # "sleep" => update_sports = "running"

\* a track or updates command waits at its confirmation send while a cycle of
\* the running loop is suspended at a fetch or a send
C10_Witness ==
    /\ update_sports = "running"
    /\ pc \in {"fetch", "send"}
    /\ confirm_wait > 0

\* C11: a track, untrack or updates command that runs while a poll cycle is
\* suspended at a fetch or a send cannot make the cycle fail: the iterator's
\* next() never raises, so no step taken from the for loop's head ends the
\* loop task.
C11_IterationNeverFails ==
    [][ pc = "next" => update_sports' = update_sports ]_vars

C16_WinnerByIntegerScore ==
    \A i \in 1..Len(outbox) :
        outbox[i].prefix = "FINAL"
        => /\ is_numeric(game.home.score) /\ is_numeric(game.away.score)
           /\ outbox[i].winner =
                IF int(game.home.score) > int(game.away.score)
                THEN game.home.displayName
                ELSE game.away.displayName

\* a FINAL announcement of a tied game is at its send and names the away team
C16_Witness ==
    /\ pc = "send"
    /\ outbox[1].prefix = "FINAL"
    /\ game.home.score = game.away.score
    /\ outbox[1].winner = game.away.displayName
    /\ outbox[1].winner # game.home.displayName

\* C17: whatever fields the events of a fetched payload lack or carry in an
\* unexpected form, the turn of the event loop that processes an event raises
\* nothing: no step taken inside the event loop ends the loop task.
C17_NoAnomalyEscapes ==
    [][ (pc = "event" /\ game'.competitions >= 1)
        => /\ update_sports' = update_sports
           /\ pc' \in {"event", "send"} ]_vars

C20_Started(g, store) ==
    /\ g.status = IN_PROGRESS
    /\ \/ g.id \notin DOMAIN store
       \/ store[g.id].status # IN_PROGRESS

\* C20 as claimed: a game is announced as GAME STARTED exactly when the
\* condition of STARTED holds.
C20_StartedAnnounced ==
    [][ (ReadStep /\ game'.competitors >= 2)
        => ( (outbox' # <<>> /\ outbox'[1].prefix = "GAME STARTED")
             <=> C20_Started(game', game_states) ) ]_vars

\* C20, amended: the game-start branch is taken exactly when the condition of
\* STARTED holds, and it announces GAME STARTED when create_game_embed returns
\* an embed for the game.
C20_StartedClassified ==
    [][ (ReadStep /\ game'.competitors >= 2)
        => ( (outbox' # <<>> /\ outbox'[1].prefix = "GAME STARTED")
             <=> ( /\ C20_Started(game', game_states)
                   /\ IsEmbed(create_game_embed(game', sport, DestinationGuild,
                                                tracked_teams)) ) ) ]_vars

\* a game first seen while IN_PROGRESS, with an empty store, is at the send of
\* its GAME STARTED announcement
C20_Witness ==
    /\ pc = "send"
    /\ game_states = EmptyDict
    /\ game.status = IN_PROGRESS
    /\ outbox[1].prefix = "GAME STARTED"

\* C18: for a gridiron sport add_game_stats completes without error whichever
\* of totalYards and turnovers the home and the away competitor carry: the game
\* view of an event being read is never the exception of add_game_stats.
C18_StatsNeverRaise ==
    [][ (pc = "event" /\ sport \in Gridiron /\ game'.competitors >= 2)
        => /\ ~add_game_stats(game'.home.statistics, game'.away.statistics,
                              sport).raised
           /\ create_game_embed(game', sport, DestinationGuild, tracked_teams)
                # EmbedError ]_vars

\* C12: a livescore session makes at most 10 sleep-and-refetch turns, ends at
\* once when a refresh fetch fails, when a refresh finds no live game (after
\* the edit that says so) or when an edit fails, and every session ends.
C12_SessionTerminates ==
    /\ [][ /\ ls_round' <= 10
           /\ (ls_pc # "sleep" /\ ls_pc' = "sleep") => ls_round' = ls_round + 1
           /\ (ls_pc # "fetch" /\ ls_pc' = "fetch")
              => (ls_pc = "sleep" /\ ls_round' = ls_round) ]_vars
    /\ [][ \A events \in SUBSET LiveSample :
             ls_refetch(FALSE, events) => ls_pc' = "idle" ]_vars
    /\ [][ (ls_pc = "edit_zero" /\ ls_pc' # ls_pc) => ls_pc' = "idle" ]_vars
    /\ [][ ls_edit(FALSE) => ls_pc' = "idle" ]_vars
    /\ (ls_pc # "idle") ~> (ls_pc = "idle")

\* the session is at the edit of its tenth turn
C12_Witness ==
    /\ ls_pc = "edit"
    /\ ls_round = 10

\* C13: a rejected message edit in the refresh loop of livescore ends the
\* session and is never an error of the command, in the branch of zero live
\* games as in the other.
C13_EditFailureSwallowed ==
    [][ (ls_pc \in {"edit", "edit_zero"}) => (cmd_error' = None) ]_vars

\* what C14 says of a sport outside the enumeration, but for the reply of
\* untrack: no command changes the tracked set, the store or the loop, a
\* lookup and livescore reply with the invalid-sport error, and whatever is
\* fetched is fetched for a sport of the enumeration
C14_Frame(arg) ==
    /\ ( \/ track(arg) \/ untrack(arg)
         \/ \E a \in UpdatesArgs : a[1] = arg /\ updates(a[1], a[2]) )
       => UNCHANGED <<tracked_sports, game_states, update_sports, lookup, ls_pc>>
    /\ \A name \in LookupNames :
         lookup_call(name, arg)
         => /\ reply' = "invalid_sport"
            /\ lookup' = NoLookup
            /\ UNCHANGED <<tracked_sports, game_states, update_sports>>
    /\ \A search_term \in SearchArgs :
         livescore(arg, search_term)
         => /\ reply' = "invalid_sport"
            /\ ls_pc' = "idle"
            /\ UNCHANGED <<tracked_sports, game_states, update_sports>>

C14_FetchesValid ==
    /\ lookup' # NoLookup => lookup'.sport \in SPORT_APIS
    /\ ls_pc' # "idle" => ls_sport' \in SPORT_APIS
    /\ members(tracked_sports') \subseteq SPORT_APIS

\* C14 as claimed: every command that takes a sport, untrack included,
\* answers a sport outside the enumeration with the invalid-sport error.
C14_InvalidSportRejected ==
    (set_len(tracked_sports) > 0 /\ confirm_wait = 0)
    => \A arg \in SportArgs :
         lower(arg) \notin SPORT_APIS
         => /\ track_reply(arg) = "invalid_sport"
            /\ untrack_reply(arg, tracked_sports) = "invalid_sport"
            /\ updates_reply(arg, None) = "invalid_sport"

\* C14, amended: track, updates, the lookups and livescore answer a sport
\* outside the enumeration with the invalid-sport error, untrack answers it
\* as a sport that is not tracked; none of them fetches or changes the
\* tracked set, the store or the loop.
C14_InvalidSportNoEffect ==
    [][ /\ C14_FetchesValid
        /\ \A arg \in SportArgs :
             lower(arg) \notin SPORT_APIS
             => /\ track_reply(arg) = "invalid_sport"
                /\ untrack_reply(arg, tracked_sports') = "not_tracking"
                /\ \A a \in UpdatesArgs :
                     a[1] = arg => updates_reply(a[1], a[2]) = "invalid_sport"
                /\ C14_Frame(arg) ]_vars

\* a lookup has just refused a sport while another sport is tracked and a
\* store entry exists
C14_Witness ==
    /\ reply = "invalid_sport"
    /\ lookup = NoLookup
    /\ ls_pc = "idle"
    /\ set_len(tracked_sports) > 0
    /\ game_states # EmptyDict

\* no step of a lookup or of livescore touches the state the poll loop and
\* the tracking commands share
OnDemandLeavesShared ==
    [][ cmd_vars' # cmd_vars => poll_vars' = poll_vars ]_vars

\* C21 as claimed: a SCORE UPDATE is handed to the channel only for a game that
\* has a stored snapshot whose score string differs from the new one, and a
\* game whose stored and new status are both IN_PROGRESS and whose score
\* string differs is announced as SCORE UPDATE.
C21_ScoreChangeAnnounced ==
    [][ (ReadStep /\ game'.competitors >= 2)
        => /\ (outbox' # <<>> /\ outbox'[1].prefix = "SCORE UPDATE")
                => /\ game'.id \in DOMAIN game_states
                   /\ current_score(game') # game_states[game'.id].score
           /\ ( /\ game'.id \in DOMAIN game_states
                /\ game_states[game'.id].status = IN_PROGRESS
                /\ game'.status = IN_PROGRESS
                /\ current_score(game') # game_states[game'.id].score )
                => (outbox' # <<>> /\ outbox'[1].prefix = "SCORE UPDATE") ]_vars

\* C21, amended: a SCORE UPDATE is handed to the channel only for a game that
\* has a stored snapshot whose score string differs from the new one; a game
\* with no stored snapshot never gets one; and a game whose stored and new
\* status are both IN_PROGRESS and whose score string differs is announced as
\* SCORE UPDATE when create_game_embed returns an embed for it.
C21_ScoreChangeClassified ==
    [][ (ReadStep /\ game'.competitors >= 2)
        => /\ (outbox' # <<>> /\ outbox'[1].prefix = "SCORE UPDATE")
                => /\ game'.id \in DOMAIN game_states
                   /\ current_score(game') # game_states[game'.id].score
           /\ ( /\ game'.id \in DOMAIN game_states
                /\ game_states[game'.id].status = IN_PROGRESS
                /\ game'.status = IN_PROGRESS
                /\ current_score(game') # game_states[game'.id].score
                /\ IsEmbed(create_game_embed(game', sport, DestinationGuild,
                                             tracked_teams)) )
                => (outbox' # <<>> /\ outbox'[1].prefix = "SCORE UPDATE") ]_vars

\* a game stored as IN_PROGRESS and observed IN_PROGRESS with another score is
\* at the send of its SCORE UPDATE announcement
C21_Witness ==
    /\ pc = "send"
    /\ game.id \in DOMAIN game_states
    /\ game_states[game.id].status = IN_PROGRESS
    /\ game.status = IN_PROGRESS
    /\ current_score(game) # game_states[game.id].score
    /\ outbox[1].prefix = "SCORE UPDATE"

\* C22: a FINAL announcement is handed to the channel only for a game whose
\* stored status is IN_PROGRESS and whose new status is FINAL (so never for a
\* game with no stored snapshot, nor for one stored with another status), and
\* a game with no stored snapshot and a status other than IN_PROGRESS gets no
\* announcement in that cycle.
C22_EndedAfterInProgressOnly ==
    [][ (ReadStep /\ game'.competitors >= 2)
        => /\ (outbox' # <<>> /\ outbox'[1].prefix = "FINAL")
                => /\ game'.id \in DOMAIN game_states
                   /\ game_states[game'.id].status = IN_PROGRESS
                   /\ game'.status = FINAL
           /\ (game'.id \notin DOMAIN game_states /\ game'.status # IN_PROGRESS)
                => outbox' = <<>> ]_vars

\* a game stored as IN_PROGRESS and observed FINAL is at the send of its FINAL
\* announcement
C22_Witness ==
    /\ pc = "send"
    /\ game.id \in DOMAIN game_states
    /\ game_states[game.id].status = IN_PROGRESS
    /\ game.status = FINAL
    /\ outbox[1].prefix = "FINAL"

\* C23: the set of game ids in the snapshot store only grows, whatever the
\* step (a poll step or a command); an entry that changes is the entry of the
\* event being processed and becomes that event's score and status.
C23_StoreNeverEvicts ==
    [][ /\ DOMAIN game_states \subseteq DOMAIN game_states'
        /\ \A k \in DOMAIN game_states' :
              (k \notin DOMAIN game_states \/ game_states'[k] # game_states[k])
              => /\ k = game'.id
                 /\ game_states'[k] = [score |-> current_score(game'),
                                       status |-> game'.status] ]_vars

\* the store holds a snapshot while no sport is tracked, the channel is set
\* and the guild's filter list was cleared
C23_Witness ==
    /\ game_states # EmptyDict
    /\ tracked_sports = EmptyBag
    /\ UPDATE_CHANNEL_ID = "c1"
    /\ DestinationGuild \in DOMAIN tracked_teams
    /\ tracked_teams[DestinationGuild] = <<>>

\* C25: a poll cycle iterates over the sports tracked when it starts, a fetch
\* begins only for a sport that is tracked at that moment, the events, sends
\* and store writes that follow are those of the sport fetched, and a change
\* of the tracked set (untrack, track) leaves the snapshot store as it is: so
\* a cycle that starts after untrack s does nothing for s, and the snapshots
\* of s are the store that the first cycle after re-tracking classifies with.
C25_UntrackedNotPolled ==
    [][ /\ (pc = "sleep" /\ pc' = "next") => it_left' = members(tracked_sports)
        /\ (pc = "next" /\ pc' = "fetch") => BagIn(sport', tracked_sports)
        /\ (pc \in {"fetch", "event", "send"} /\ pc' \in {"fetch", "event", "send"})
              => sport' = sport
        /\ (pc = "event" /\ pc' = "send")
              => outbox' = announcements(game', sport, DestinationGuild,
                                         tracked_teams, game_states)
        /\ tracked_sports' # tracked_sports => game_states' = game_states ]_vars

\* a cycle that started with nothing tracked while the store still holds
\* the snapshots of the sport polled before
C25_Witness ==
    /\ pc = "next"
    /\ it_used = 0
    /\ it_left = {}
    /\ tracked_sports = EmptyBag
    /\ game_states # EmptyDict

\* C26: the tracked-sports set is a subset of the keys of SPORT_APIS.
C26_TrackedWithinEnumeration ==
    members(tracked_sports) \subseteq SPORT_APIS

\* every key of SPORT_APIS is tracked, no command in flight
C26_Witness ==
    /\ members(tracked_sports) = SPORT_APIS
    /\ confirm_wait = 0

\* C30: when no track or updates command is in flight, a non-empty
\* tracked-sports set implies that the poll loop is running.
C30_TrackedImpliesRunning ==
    (confirm_wait = 0 /\ set_len(tracked_sports) > 0) => is_running

\* the filter list of guild g is lower-cased and has no duplicates
C29_Normal(list) ==
    /\ \A i \in 1..Len(list) : list[i] = lower(list[i])
    /\ \A i, j \in 1..Len(list) : list[i] = list[j] => i = j

\* the filter lists of the guilds other than g, the tracked-sports set and the
\* snapshot store are left as they are
C29_Frame(g) ==
    /\ DOMAIN tracked_teams' \ {g} = DOMAIN tracked_teams \ {g}
    /\ \A h \in DOMAIN tracked_teams \ {g} : tracked_teams'[h] = tracked_teams[h]
    /\ tracked_sports' = tracked_sports
    /\ game_states' = game_states

\* C29: every guild's filter list holds only lower-cased entries and no
\* duplicates; filterteam appends the lower-cased name when it is not in the
\* list and otherwise leaves the list unchanged, clearfilter empties the
\* calling guild's list, and neither changes another guild's list, the
\* tracked-sports set or the snapshot store.
C29_FilterListsNormal ==
    [][ /\ \A g \in DOMAIN tracked_teams' : C29_Normal(tracked_teams'[g])
        /\ \A g \in FilterGuilds, t \in FilterTeamArgs :
              filterteam(g, t)
              => /\ C29_Frame(g)
                 /\ tracked_teams'[g] =
                      IF \E i \in 1..Len(filters_of(g)) : filters_of(g)[i] = lower(t)
                      THEN filters_of(g)
                      ELSE Append(filters_of(g), lower(t))
        /\ \A g \in FilterGuilds :
              clearfilter(g)
              => /\ C29_Frame(g)
                 /\ g \in DOMAIN tracked_teams => tracked_teams'[g] = <<>> ]_vars

\* one guild has two filters, the other one cleared its list, while a sport is
\* tracked and the store holds a snapshot
C29_Witness ==
    /\ DOMAIN tracked_teams = FilterGuilds
    /\ Len(tracked_teams["G1"]) = 2
    /\ tracked_teams["G2"] = <<>>
    /\ tracked_sports # EmptyBag
    /\ game_states # EmptyDict

\* the stored snapshot of event g was committed while polling another sport
C24_Collision(g) ==
    /\ g.id \in DOMAIN game_states
    /\ g.id \in DOMAIN history.writer
    /\ history.writer[g.id] # sport

\* C24 as claimed: when the stored snapshot of a game id was committed while
\* polling another sport, it is the prior snapshot of this sport's game, and a
\* score or a status that differs from it produces an announcement.
C24_OtherSportAnnounced ==
    [][ (ReadStep /\ game'.competitors >= 2 /\ C24_Collision(game')
         /\ \/ current_score(game') # game_states[game'.id].score
            \/ game'.status # game_states[game'.id].status)
        => outbox' # <<>> ]_vars

\* C24, amended: when the stored snapshot of a game id was committed while
\* polling another sport, it is the prior snapshot of this sport's game: a
\* score that differs from it, a status that turns to IN_PROGRESS or a status
\* that turns from IN_PROGRESS to FINAL produces an announcement when
\* create_game_embed returns an embed for the game.
C24_OtherSportClassified ==
    [][ (ReadStep /\ game'.competitors >= 2 /\ C24_Collision(game')
         /\ IsEmbed(create_game_embed(game', sport, DestinationGuild, tracked_teams))
         /\ \/ current_score(game') # game_states[game'.id].score
            \/ /\ game'.status = IN_PROGRESS
               /\ game_states[game'.id].status # IN_PROGRESS
            \/ /\ game'.status = FINAL
               /\ game_states[game'.id].status = IN_PROGRESS)
        => outbox' # <<>> ]_vars

\* in a cycle over two sports the second sport's game is at the send of a
\* SCORE UPDATE against the snapshot that the other sport's poll committed
C24_Witness ==
    /\ pc = "send"
    /\ it_used = 2
    /\ C24_Collision(game)
    /\ game.status = game_states[game.id].status
    /\ outbox[1].prefix = "SCORE UPDATE"

\* C27: when the event being classified has the score and the status that
\* the last classification of its game id saw, no message is handed to the
\* channel.
C27_NoRepeatedAnnouncement ==
    [][ (ReadStep /\ game'.competitors >= 2
         /\ game'.id \in DOMAIN history.observed
         /\ history.observed[game'.id] = [score |-> current_score(game'),
                                          status |-> game'.status])
        => outbox' = <<>> ]_vars

\* C28 as claimed: a game that was classified while IN_PROGRESS and announced
\* as GAME STARTED, then classified with another status, and is IN_PROGRESS
\* again is announced as GAME STARTED once more.
C28_RestartAnnounced ==
    [][ (ReadStep /\ game'.competitors >= 2
         /\ game'.id \in history.in_progress_seen
         /\ game'.id \in history.started
         /\ game'.id \in DOMAIN history.observed
         /\ history.observed[game'.id].status # IN_PROGRESS
         /\ game'.status = IN_PROGRESS)
        => (outbox' # <<>> /\ outbox'[1].prefix = "GAME STARTED") ]_vars

\* C28, amended: GAME STARTED is decided from the stored status only: it is
\* handed to the channel only when the condition of STARTED holds against the
\* store, and a game that was classified while IN_PROGRESS before, whose
\* stored status is now another one and whose new status is IN_PROGRESS is
\* announced as GAME STARTED again when create_game_embed returns an embed.
C28_RestartClassified ==
    [][ (ReadStep /\ game'.competitors >= 2)
        => /\ (outbox' # <<>> /\ outbox'[1].prefix = "GAME STARTED")
                => C20_Started(game', game_states)
           /\ ( /\ game'.id \in history.in_progress_seen
                /\ game'.id \in DOMAIN game_states
                /\ game_states[game'.id].status # IN_PROGRESS
                /\ game'.status = IN_PROGRESS
                /\ IsEmbed(create_game_embed(game', sport, DestinationGuild,
                                             tracked_teams)) )
                => (outbox' # <<>> /\ outbox'[1].prefix = "GAME STARTED") ]_vars

\* a game whose GAME STARTED was delivered before and whose stored status is
\* no longer IN_PROGRESS is at the send of another GAME STARTED
C28_Witness ==
    /\ pc = "send"
    /\ game.id \in history.started
    /\ game.id \in DOMAIN game_states
    /\ game_states[game.id].status # IN_PROGRESS
    /\ outbox[1].prefix = "GAME STARTED"

====
